---- MODULE Spec2Model ----
(***************************************************************************)
(* The VK -> Chatwoot webhook bridge: the webhook dispatcher               *)
(* (VkController.handleCallback / handleMessageNew), the source-platform   *)
(* user-info lookup (VkService.getVkUserInfo) and the helpdesk client      *)
(* (ApiService.getOrCreateContact / getOrCreateConversation / sendMessage  *)
(* / processVkMessage) with its identity cache (contactMap).               *)
(*                                                                         *)
(* The sources hold several drafts of the controller and of the helpdesk   *)
(* client.  Which draft is built is fixed at construction: `ctl` and `api` *)
(* are chosen in Init and never change.                                    *)
(*   ctl = "basic"       src/src/vk/vk.controller.ts:6-172                 *)
(*   ctl = "strict"      src/src/vk/vk.controller.ts:196-423               *)
(*   ctl = "events"      src/unnamed/part_002:64-258                       *)
(*   api = "bearer"      src/src/vk/api.service.ts:6-298                   *)
(*   api = "admin"       src/src/vk/api.service.ts:319-576                 *)
(*   api = "timeout"     src/src/vk/api.service.ts:582-810                 *)
(*   api = "application" src/unnamed/part_000:6-324                        *)
(* The widget draft of the controller (vk.controller.ts:429-578) forwards  *)
(* through sendMessageViaWidget, which the sources do not hold; it is not  *)
(* modelled.                                                               *)
(*                                                                         *)
(* Every handler is an async function: it runs atomically from one await   *)
(* of a remote call to the next.  An action below is one such run: the     *)
(* remote call returns (its outcome is the environment's choice) and the   *)
(* handler continues up to its next remote call or to its return.          *)
(*                                                                         *)
(* The helpdesk is the environment: a search by identifier answers with    *)
(* the contacts that carry that identifier, a search for conversations     *)
(* with the open conversations of the contact; a call can fail, and a POST *)
(* can fail after the helpdesk has stored the entity.                      *)
(***************************************************************************)
EXTENDS Integers, Sequences, FiniteSets, TLC

\* ------------------------------------------------------------- bounds
MaxDeliveries == 1   \* webhook deliveries in one behaviour
MaxCalls == 2        \* direct calls of the helpdesk client, one after the other
MaxResolutions == 4  \* overlapping calls of getOrCreateContact in one behaviour
MaxLookups == 3      \* overlapping calls of getOrCreateConversation in one behaviour
MaxTicks == 1        \* advances of the wall clock between reads of Date.now()
MaxRandom == 1       \* Math.floor(Math.random() * 1000000) ranges over 0..MaxRandom
MaxOverlap == 2      \* webhook deliveries in one behaviour when they may overlap

Slots == {"d1", "d2"}            \* deliveries that can be in flight together
Users == {1, 2}                  \* external (VK) user ids, message.from_id

\* ---------------------------------------------------- program constants
Null == -1           \* JavaScript null / undefined where a number is expected
ClockStart == 10     \* Date.now() when the process starts
VkGroupId == 7       \* configured VK_GROUP_ID
OtherGroupId == 8    \* a group id that is not the configured one
NoGroupId == 0       \* body.group_id absent (falsy)

VkConfirmation == "confirmation-token"   \* configured VK_CONFIRMATION
Ack == "ok"
Raised == "raised"                       \* an error escaping handleCallback
NoSecret == ""                           \* secret absent / not configured (falsy)

CtlDrafts == {"basic", "strict", "events"}
ApiDrafts == {"bearer", "admin", "timeout", "application"}

VARIABLES
  ctl,            \* the controller draft that is built
  api,            \* the helpdesk client draft that is built
  vkSecret,       \* configured VK_SECRET (NoSecret: not configured)
  env,            \* the helpdesk settings of the environment: [token, inbox]
  contactMap,     \* ApiService.contactMap: external user id -> contact id
  contacts,       \* helpdesk: contacts, [id, identifier]
  conversations,  \* helpdesk: conversations, [id, contact_id, status, source_id]
  messages,       \* helpdesk: the messages it holds, [conversation, content]
  now,            \* the wall clock: the value Date.now() gave last
  proc,           \* per slot: the delivery in flight and its position
  started,        \* deliveries started so far
  completed,      \* the delivery that returned in the last step (NoCompletion otherwise)
  returned,       \* per user: the id the last getOrCreateContact call returned
  hit,            \* per user: the id the last cache-hit getOrCreateContact call returned
  lastConv        \* per contact id: the id the last getOrCreateConversation call
                  \* got from the helpdesk (found or created)

vars == <<ctl, api, vkSecret, env, contactMap, contacts, conversations, messages, now,
          proc, started, completed, returned, hit, lastConv>>

\* ------------------------------------------------------------ values
\* A map that forgets its other entries when one is set.
PutAlone(f, k, v) == [x \in {k} |-> v]

\* A map whose every entry is overwritten when one is set.
PutAll(f, k, v) == [x \in (DOMAIN f) \cup {k} |-> v]

Put(f, k, v) == [x \in (DOMAIN f) \cup {k} |-> IF x = k THEN v ELSE f[x]]

\* JavaScript truthiness of a number-or-null: `if (!contactId)`.
Falsy(x) == x = Null \/ x = 0

\* Message texts: the empty one, a whitespace-only one, a plain one, one with
\* whitespace around it.
Texts == {<<>>, <<"sp">>, <<"ch">>, <<"sp", "ch", "sp">>}

RECURSIVE TrimStart(_)
TrimStart(s) == IF s # <<>> /\ Head(s) = "sp" THEN TrimStart(Tail(s)) ELSE s

RECURSIVE TrimEnd(_)
TrimEnd(s) ==
  IF s # <<>> /\ s[Len(s)] = "sp" THEN TrimEnd(SubSeq(s, 1, Len(s) - 1)) ELSE s

\* A trim that leaves the string as it is.
Untrimmed(s) == s

\* String.prototype.trim
Trim(s) == TrimEnd(TrimStart(s))

\* `!content || content.trim().length === 0`
Blank(content) == content = <<>> \/ Len(Trim(content)) = 0

\* An identifier that does not tell the users apart.
IdentifierShared(vkUserId) == <<"vk_", 0>>

\* `vk_${vkUserId}`
Identifier(vkUserId) == <<"vk_", vkUserId>>

\* ------------------------------------------------------------ events
NoType == ""

\* The envelope of a delivery: {type, object, group_id, secret} in the body, type
\* also in the query.  shape: "full" (object.message present), "no_message"
\* (object without message), "no_object" (object absent).

\* The secret and the group id of an envelope: both absent, both as configured,
\* another secret, another group id, both different.
Envelopes ==
  {<<NoSecret, NoGroupId>>, <<"s1", VkGroupId>>, <<"s2", VkGroupId>>,
   <<"s1", OtherGroupId>>, <<"s2", OtherGroupId>>}

\* message_new with a well-formed object.
MessageEvents ==
  {[bodyType |-> "message_new", queryType |-> NoType, secret |-> sg[1],
    group_id |-> sg[2], shape |-> "full", from_id |-> u, text |-> t] :
     sg \in Envelopes \ {<<"s2", OtherGroupId>>}, u \in Users, t \in Texts}

\* message_new with a malformed object, in the body or announced in the query.
MalformedEvents ==
  {[bodyType |-> bs[1], queryType |-> "message_new", secret |-> sg[1],
    group_id |-> sg[2], shape |-> bs[2], from_id |-> 0, text |-> <<>>] :
     bs \in {<<"message_new", "no_message">>, <<"message_new", "no_object">>,
             <<NoType, "no_object">>},
     sg \in Envelopes}

\* The other events, the type in the body, in the query, or in both.
OtherEvents ==
  {[bodyType |-> bqs[1], queryType |-> bqs[2], secret |-> sg[1], group_id |-> sg[2],
    shape |-> bqs[3], from_id |-> 0, text |-> <<>>] :
     bqs \in {<<"confirmation", NoType, "full">>, <<"confirmation", NoType, "no_object">>,
              <<NoType, "confirmation", "no_object">>,
              <<"message_typing_state", "confirmation", "full">>,
              <<"message_typing_state", NoType, "full">>,
              <<"group_join", NoType, "full">>, <<"group_join", NoType, "no_object">>,
              <<"unknown", NoType, "full">>, <<NoType, NoType, "no_object">>},
     sg \in Envelopes}

Events == MessageEvents \cup MalformedEvents \cup OtherEvents

\* An event type read from the body only.
EventTypeBodyOnly(e) == e.bodyType

\* Where `body.type || query.type` takes the type from.
TypeSource(e) ==
  CASE e.bodyType # NoType -> "body"
    [] e.bodyType = NoType /\ e.queryType # NoType -> "query"
    [] OTHER -> "none"

\* `const eventType = body.type || query.type`
EventType(e) == IF e.bodyType # NoType THEN e.bodyType ELSE e.queryType

\* --------------------------------------------------------- deliveries
IdleProc ==
  [pc |-> "idle", entry |-> "none", type |-> NoType, via |-> "none",
   failed |-> {}, user |-> 0,
   text |-> <<>>,
   info |-> "none", contactId |-> Null, contactHow |-> "none", convId |-> Null,
   convHow |-> "none", sourceId |-> <<>>, sent |-> "none", error |-> "none",
   resp |-> "none", log |-> <<>>]

NoCompletion == [IdleProc EXCEPT !.pc = "none"]

\* A remote call is issued, which the log of the delivery records: the handler
\* awaits it.
Issue(p, call) == [p EXCEPT !.pc = call, !.log = Append(@, call)]

\* The entry point returns.
Return(p, sent) == [p EXCEPT !.pc = "done", !.sent = sent]

Count(log, call) == Cardinality({i \in 1..Len(log) : log[i] = call})

\* ---------------------------------------------------------- pipeline
\* The operators of this section are the synchronous runs of the handlers between
\* two awaits: each takes the delivery's record and gives the record at the next
\* await (pc names the call awaited) or at the return (pc = "done").

\* The guard that opens sendMessage.
SendRejects(conversationId, content) ==
  IF api \in {"bearer", "timeout"}
  THEN Falsy(conversationId) \/ Blank(content)
  ELSE Blank(content)

\* A forwarder that skips every message.
SendMessageSkip(p) == Return(p, "false")

\* A forwarder that waits for a turn nobody grants: its promise never settles.
SendMessageQueued(p) == [p EXCEPT !.pc = "queued"]

\* sendMessage up to its POST.
SendMessage(p) ==
  IF SendRejects(p.convId, p.text)
  THEN Return(p, "false")
  ELSE Issue(p, "message_create")

\* Whether the caller of getOrCreateContact / getOrCreateConversation stops on a
\* falsy id (`if (!contactId) return`): handleMessageNew of the basic and events
\* drafts and processVkMessage do; handleMessageNew of the strict draft does not.
Gated(p) ==
  \/ p.entry = "process"
  \/ p.entry = "callback" /\ ctl \in {"basic", "events"}

\* Its caller continues after getOrCreateConversation returned p.convId.
AfterConversation(p) ==
  IF p.entry = "conversation" THEN Return(p, "none")
  ELSE IF Gated(p) /\ Falsy(p.convId)
       THEN Return(p, IF p.entry = "process" THEN "false" ELSE "none")
       ELSE SendMessage(p)

\* getOrCreateConversation that creates the conversation without searching.
GetOrCreateConversationBlind(p) == Issue(p, "conversation_create")

\* getOrCreateConversation up to its search call.
GetOrCreateConversation(p) ==
  IF \/ api \in {"bearer", "timeout"} /\ Falsy(p.contactId)
     \/ api = "application" /\ p.contactId = Null
  THEN AfterConversation([p EXCEPT !.convId = Null, !.convHow = "refused"])
  ELSE Issue(p, "conversation_search")

\* A caller that stops once the contact is resolved.
AfterContactStop(p) == Return(p, "none")

\* Its caller continues after getOrCreateContact returned p.contactId.
AfterContact(p) ==
  IF p.entry = "contact" THEN Return(p, "none")
  ELSE IF Gated(p) /\ Falsy(p.contactId)
       THEN Return(p, IF p.entry = "process" THEN "false" ELSE "none")
       ELSE GetOrCreateConversation(p)

\* getOrCreateContact without the cache lookup.
GetOrCreateContactUncached(p) == Issue(p, "contact_search")

\* getOrCreateContact that creates the contact without searching.
GetOrCreateContactBlind(p) == Issue(p, "contact_create")

\* getOrCreateContact that trusts a cached id only when the helpdesk holds a
\* contact with it, and resolves the user again otherwise.
GetOrCreateContactReconciling(p) ==
  IF p.user \in DOMAIN contactMap
     /\ \E c \in contacts : c.id = contactMap[p.user]
  THEN AfterContact([p EXCEPT !.contactId = contactMap[p.user], !.contactHow = "hit"])
  ELSE Issue(p, "contact_search")

\* getOrCreateContact up to its search call: the cache lookup.
GetOrCreateContact(p) ==
  IF p.user \in DOMAIN contactMap
  THEN AfterContact([p EXCEPT !.contactId = contactMap[p.user], !.contactHow = "hit"])
  ELSE Issue(p, "contact_search")

\* The catch block of getOrCreateContact: the id it returns.  `t` is the value
\* of Date.now() (admin draft), `fallback` that of Math.floor(Math.random() *
\* 1000000) (application draft).
ContactCatch(fallback, t) ==
  CASE api = "admin" -> t
    [] api = "application" -> fallback
    [] OTHER -> Null

\* The catch block of getOrCreateConversation: the id it returns.
ConversationCatch(t) == IF api = "admin" THEN t ELSE Null

\* The id getOrCreateContact reads from a create response of shape `shape`:
\* "id" ({id}), "contact.id" ({contact: {id}}), "none".
CreatedContactId(shape, id) ==
  IF shape = "id" \/ (api = "bearer" /\ shape = "contact.id") THEN id ELSE Null

\* What sendMessage returns for a 2xx response of shape `shape`.
Delivered(shape) == IF api = "bearer" THEN shape = "id" ELSE TRUE

\* -------------------------------------------------------- dispatcher
\* `body.secret && body.secret !== this.configService.get('VK_SECRET')`
SecretMismatch(e) == e.secret # NoSecret /\ e.secret # vkSecret

\* A dispatcher without the group check.
GroupUnchecked(e) == FALSE

\* `body.group_id && parseInt(body.group_id) !== this.vkGroupId`
GroupMismatch(e) == e.group_id # NoGroupId /\ e.group_id # VkGroupId

\* A dispatcher that lets the HttpException of a rejected event escape.
OnErrorRaise(error) == IF error \in {"secret", "group"} THEN Raised ELSE Ack

\* The answer to an event that is not processed to its end: "secret" and "group"
\* (the event is rejected: an HttpException in the strict draft, a return in the
\* others), "type_error" and "envelope" (a TypeError reaches handleCallback's catch
\* block), "swallowed" (handleMessageNew has caught it).
OnError(error) == Ack

\* A dispatcher that answers a confirmation like any other event.
ResponseAck(p) == IF p.error # "none" THEN OnError(p.error) ELSE Ack

\* The token handleCallback answers with.
Response(p) ==
  IF p.type = "confirmation" THEN VkConfirmation
  ELSE IF p.error # "none" THEN OnError(p.error)
  ELSE Ack

\* A handleMessageNew that reads the sender of any envelope.
HandleMessageNewUnchecked(p, e) ==
  Issue([p EXCEPT !.user = e.from_id, !.text = e.text], "user_info")

\* A handleMessageNew that skips a blank text before any stage.
HandleMessageNewSkipBlank(p, e) ==
  IF e.shape # "full"
  THEN Return([p EXCEPT !.error = IF ctl = "strict" THEN "envelope" ELSE "swallowed"],
              "none")
  ELSE IF Blank(e.text)
       THEN Return([p EXCEPT !.user = e.from_id, !.text = e.text], "none")
       ELSE Issue([p EXCEPT !.user = e.from_id, !.text = e.text], "user_info")

\* handleMessageNew up to its user-info call.  A malformed envelope raises a
\* TypeError at `messageData.message` / `message.from_id`: the basic and events
\* drafts swallow it, the strict draft logs and rethrows it.
HandleMessageNew(p, e) ==
  IF e.shape # "full"
  THEN Return([p EXCEPT !.error = IF ctl = "strict" THEN "envelope" ELSE "swallowed"],
              "none")
  ELSE Issue([p EXCEPT !.user = e.from_id, !.text = e.text], "user_info")

\* A switch that forwards every event as a message.
DispatchAll(p, e) == HandleMessageNew(p, e)

\* The switch on the event type.  The strict and events drafts read
\* body.object.user_id for membership events: a TypeError when object is absent.
Dispatch(p, e) ==
  CASE p.type = "message_new" -> HandleMessageNew(p, e)
    [] /\ p.type = "group_join"
       /\ ctl \in {"strict", "events"}
       /\ e.shape = "no_object" -> Return([p EXCEPT !.error = "type_error"], "none")
    [] OTHER -> Return(p, "none")

\* Whether the secret check rejects the event: only the strict draft has one.
SecretRejects(e) == ctl = "strict" /\ SecretMismatch(e)

\* The validations of the draft that the envelope of the event does not pass.
FailedChecks(e) ==
  {c \in {"secret"} : SecretRejects(e)} \cup {c \in {"group"} : GroupMismatch(e)}

\* A handleCallback that validates the envelope before it looks at the type.
HandleCallbackValidating(e) ==
  LET p == [IdleProc EXCEPT !.entry = "callback", !.type = EventType(e),
                            !.via = TypeSource(e), !.failed = FailedChecks(e)]
  IN CASE SecretRejects(e) -> Return([p EXCEPT !.error = "secret"], "none")
       [] ~SecretRejects(e) /\ GroupMismatch(e) ->
            Return([p EXCEPT !.error = "group"], "none")
       [] ~SecretRejects(e) /\ ~GroupMismatch(e) /\ p.type = "confirmation" ->
            Return(p, "none")
       [] OTHER -> Dispatch(p, e)

\* handleCallback(body, query) up to its first await or its return.
HandleCallback(e) ==
  LET p == [IdleProc EXCEPT !.entry = "callback", !.type = EventType(e),
                            !.via = TypeSource(e), !.failed = FailedChecks(e)]
  IN CASE p.type = "confirmation" -> Return(p, "none")
       [] p.type # "confirmation" /\ SecretRejects(e) ->
            Return([p EXCEPT !.error = "secret"], "none")
       [] p.type # "confirmation" /\ ~SecretRejects(e) /\ GroupMismatch(e) ->
            Return([p EXCEPT !.error = "group"], "none")
       [] OTHER -> Dispatch(p, e)

\* ------------------------------------------------------------ actions
\* The delivery of slot d has run to q: it awaits its next call, or it has returned,
\* which frees the slot and shows in `completed`.
Advance(d, q) ==
  IF q.pc = "done"
  THEN /\ proc' = [proc EXCEPT ![d] = IdleProc]
       /\ completed' = [q EXCEPT !.resp = IF q.entry = "callback" THEN Response(q) ELSE "none"]
  ELSE /\ proc' = [proc EXCEPT ![d] = q]
       /\ completed' = NoCompletion

\* A call of getOrCreateContact starts with the record p: a cache hit returns.
ContactLookup(p) ==
  IF p.user \in DOMAIN contactMap
  THEN /\ returned' = Put(returned, p.user, contactMap[p.user])
       /\ hit' = Put(hit, p.user, contactMap[p.user])
  ELSE UNCHANGED <<returned, hit>>

Helpdesk == <<contacts, conversations, messages>>
Config == <<ctl, api, vkSecret, env>>

\* POST /vk/callback: handleCallback(body, query).
Deliver(d, e) ==
  /\ proc[d].pc = "idle"
  /\ started' = started + 1
  /\ Advance(d, HandleCallback(e))
  /\ UNCHANGED <<Config, contactMap, Helpdesk, now, returned, hit, lastConv>>

\* The outcomes of the users.get call.
UserInfoOutcomes == {"ok", "empty", "error", "fail"}

\* A getVkUserInfo without a placeholder: it returns response[0] whatever the
\* call gave.
GetVkUserInfoBare(out) == IF out = "ok" THEN "profile" ELSE "undefined"

\* What getVkUserInfo returns: response[0] (the profile, or undefined when the
\* response is empty), or the placeholder {first_name: 'VK', last_name: 'User'}
\* for an error body and from the catch block.
GetVkUserInfo(out) ==
  CASE out = "ok" -> "profile"
    [] out = "empty" -> "undefined"
    [] OTHER -> "placeholder"

\* getVkUserInfo returns: "ok" (the profile), "empty" (response: [], so
\* response[0] is undefined), "error" (an error body), "fail" (the call threw).
UserInfoReturn(d, out) ==
  /\ proc[d].pc = "user_info"
  /\ LET p == [proc[d] EXCEPT !.info = GetVkUserInfo(out)]
     IN /\ ContactLookup(p)
        /\ Advance(d, GetOrCreateContact(p))
  /\ UNCHANGED <<Config, contactMap, Helpdesk, now, started, lastConv>>

\* getOrCreateContact returns `id` to its caller; `cached`: it has set the cache;
\* how: "found" by the search, "created", or "failed" (from the catch block).
ContactResult(d, p, id, cached, how) ==
  /\ contactMap' = IF cached THEN Put(contactMap, p.user, id) ELSE contactMap
  /\ returned' = Put(returned, p.user, id)
  /\ Advance(d, AfterContact([p EXCEPT !.contactId = id, !.contactHow = how,
                                       !.info = "none"]))
  /\ UNCHANGED hit

\* A catch block that returns its id without caching it.
CatchCachesNever == FALSE

\* Whether the catch block of getOrCreateContact caches the id it returns.
CatchCaches == api \in {"admin", "application"}

\* Date.now() is read (`reads`) and gives t: the clock has advanced since it was
\* last read, or it has not.  A step that does not read the clock leaves it.
Clock(t, reads) ==
  /\ t \in {now, now + 1}
  /\ t <= ClockStart + MaxTicks
  /\ reads \/ t = now
  /\ now' = t

\* The catch block of getOrCreateContact runs.
ContactFailed(d, p, fallback, t) ==
  /\ Clock(t, api = "admin")
  /\ fallback = 0 \/ api = "application"
  /\ ContactResult(d, p, ContactCatch(fallback, t), CatchCaches, "failed")

\* A search that matches every contact.
ContactMatchesAny(vkUserId) == contacts

\* A search that matches no contact.
ContactMatchesNone(vkUserId) == {}

\* The search GET /contacts/search?q=vk_<id>: the contacts with that identifier.
ContactMatches(vkUserId) == {c \in contacts : c.identifier = Identifier(vkUserId)}

\* GET /contacts/search returns: "fail" (the call threw), or "ok" with the
\* matching contacts, `first` being payload[0].
ContactSearchReturn(d, out, first, fallback, t) ==
  /\ proc[d].pc = "contact_search"
  /\ LET p == proc[d]
         found == ContactMatches(p.user)
     IN CASE out = "fail" ->
               /\ first = Null
               /\ ContactFailed(d, p, fallback, t)
          [] out = "ok" /\ found # {} ->
               /\ first \in {c.id : c \in found}
               /\ fallback = 0
               /\ Clock(t, FALSE)
               /\ ContactResult(d, p, first, TRUE, "found")
          [] out = "ok" /\ found = {} /\ p.info = "undefined" ->
               \* `userInfo.first_name` of undefined: a TypeError, caught
               /\ first = Null
               /\ ContactFailed(d, p, fallback, t)
          [] OTHER ->
               /\ first = Null
               /\ fallback = 0
               /\ Clock(t, FALSE)
               /\ Advance(d, Issue(p, "contact_create"))
               /\ UNCHANGED <<contactMap, returned, hit>>
  /\ UNCHANGED <<Config, Helpdesk, started, lastConv>>

\* The outcomes of a POST: a 2xx response carrying {id} ("id"), {contact: {id}}
\* ("contact.id") or no id ("none"); a failure without effect ("fail"); a
\* failure after the helpdesk has stored the entity ("lost").
PostOutcomes == {"id", "none", "fail", "lost"}
\* A helpdesk that stores nothing.
StoredNever(out) == FALSE
Stored(out) == out # "fail"

\* POST /contacts returns.
ContactCreateReturn(d, out, fallback, t) ==
  /\ proc[d].pc = "contact_create"
  /\ LET p == proc[d]
         newId == Cardinality(contacts) + 1
         id == IF out \in {"fail", "lost"} THEN Null ELSE CreatedContactId(out, newId)
     IN /\ contacts' = IF Stored(out)
                       THEN contacts \cup {[id |-> newId, identifier |-> Identifier(p.user)]}
                       ELSE contacts
        /\ IF id # Null
           THEN /\ fallback = 0
                /\ Clock(t, FALSE)
                /\ ContactResult(d, p, id, TRUE, "created")
           ELSE ContactFailed(d, p, fallback, t)
  /\ UNCHANGED <<Config, conversations, messages, started, lastConv>>

\* getOrCreateConversation returns `id` to its caller; how: "found", "created" or
\* "failed" (from the catch block).
ConversationResult(d, p, id, how) ==
  /\ Advance(d, AfterConversation([p EXCEPT !.convId = id, !.convHow = how]))
  /\ lastConv' = IF how = "failed" THEN lastConv ELSE Put(lastConv, p.contactId, id)

\* The catch block of getOrCreateConversation runs.
ConversationFailed(d, p, t) ==
  /\ Clock(t, api = "admin")
  /\ ConversationResult(d, p, ConversationCatch(t), "failed")

\* A search for conversations that finds none.
ConversationMatchesNone(contactId) == {}

\* GET /conversations?inbox_id&contact_id&status=open: the open conversations of
\* the contact.
ConversationMatches(contactId) ==
  {c \in conversations : c.contact_id = contactId /\ c.status = "open"}

\* `vk_${vkUserId}_${Date.now()}`
SourceId(vkUserId, t) == <<"vk_", vkUserId, t>>

\* GET /conversations returns; `first` is the conversation the draft picks from
\* the payload (payload[0], or the first open one).
ConversationSearchReturn(d, out, first, t) ==
  /\ proc[d].pc = "conversation_search"
  /\ LET p == proc[d]
         found == ConversationMatches(p.contactId)
     IN CASE out = "fail" ->
               /\ first = Null
               /\ ConversationFailed(d, p, t)
          [] out = "ok" /\ found # {} ->
               /\ first \in {c.id : c \in found}
               /\ Clock(t, FALSE)
               /\ ConversationResult(d, p, first, "found")
          [] OTHER ->
               /\ first = Null
               /\ Clock(t, TRUE)
               /\ Advance(d, Issue([p EXCEPT !.sourceId = SourceId(p.user, t)],
                                   "conversation_create"))
               /\ UNCHANGED lastConv
  /\ UNCHANGED <<Config, contactMap, Helpdesk, started, returned, hit>>

\* POST /conversations returns.
ConversationCreateReturn(d, out, t) ==
  /\ proc[d].pc = "conversation_create"
  /\ LET p == proc[d]
         newId == Cardinality(conversations) + 1
     IN /\ conversations' =
             IF Stored(out)
             THEN conversations \cup {[id |-> newId, contact_id |-> p.contactId,
                                       status |-> "open", source_id |-> p.sourceId]}
             ELSE conversations
        /\ IF out = "id"
           THEN /\ Clock(t, FALSE)
                /\ ConversationResult(d, p, newId, "created")
           ELSE ConversationFailed(d, p, t)
  /\ UNCHANGED <<Config, contactMap, contacts, messages, started, returned, hit>>

\* What sendMessage returns when its POST has the outcome `out`: the boolean
\* true or false.
SendResult(out) == IF out \in {"id", "none"} /\ Delivered(out) THEN "true" ELSE "false"

\* A forwarder that undoes the earlier stages when its POST fails: it deletes
\* the conversation and forgets the cached contact.
MessageCreateRollback(d, out) ==
  /\ proc[d].pc = "message_create"
  /\ LET p == proc[d]
         undo == SendResult(out) = "false"
     IN /\ messages' =
             IF Stored(out)
             THEN messages \cup {[conversation |-> p.convId, content |-> Trim(p.text)]}
             ELSE messages
        /\ conversations' =
             IF undo THEN {c \in conversations : c.id # p.convId} ELSE conversations
        /\ contactMap' =
             IF undo
             THEN [u \in DOMAIN contactMap \ {p.user} |-> contactMap[u]]
             ELSE contactMap
        /\ Advance(d, Return(p, SendResult(out)))
  /\ UNCHANGED <<Config, contacts, now, started, returned, hit, lastConv>>

\* POST /conversations/<id>/messages returns.
MessageCreateReturn(d, out) ==
  /\ proc[d].pc = "message_create"
  /\ LET p == proc[d]
     IN /\ messages' =
             IF Stored(out)
             THEN messages \cup {[conversation |-> p.convId, content |-> Trim(p.text)]}
             ELSE messages
        /\ Advance(d, Return(p, SendResult(out)))
  /\ UNCHANGED <<Config, contactMap, contacts, conversations, now, started, returned, hit, lastConv>>

ContactCreateOutcomes == PostOutcomes \cup {"contact.id"}

\* A direct call of ApiService.getOrCreateContact(vkUserId, userInfo).
CallContact(d, vkUserId, info) ==
  /\ proc[d].pc = "idle"
  /\ started' = started + 1
  /\ LET p == [IdleProc EXCEPT !.entry = "contact", !.user = vkUserId, !.info = info]
     IN /\ ContactLookup(p)
        /\ Advance(d, GetOrCreateContact(p))
  /\ UNCHANGED <<Config, contactMap, Helpdesk, now, lastConv>>

\* A direct call of ApiService.getOrCreateConversation(vkUserId, contactId).
CallConversation(d, vkUserId, contactId) ==
  /\ proc[d].pc = "idle"
  /\ started' = started + 1
  /\ Advance(d, GetOrCreateConversation(
                  [IdleProc EXCEPT !.entry = "conversation", !.user = vkUserId,
                                   !.contactId = contactId]))
  /\ UNCHANGED <<Config, contactMap, Helpdesk, now, returned, hit, lastConv>>

\* A direct call of ApiService.sendMessage(conversationId, content).
CallSend(d, conversationId, content) ==
  /\ proc[d].pc = "idle"
  /\ started' = started + 1
  /\ Advance(d, SendMessage([IdleProc EXCEPT !.entry = "send", !.convId = conversationId,
                                             !.text = content]))
  /\ UNCHANGED <<Config, contactMap, Helpdesk, now, returned, hit, lastConv>>

\* A call of ApiService.processVkMessage(vkUserId, userInfo, messageText), which
\* only the application draft defines.
ProcessVkMessage(d, vkUserId, info, messageText) ==
  /\ api = "application"
  /\ proc[d].pc = "idle"
  /\ started' = started + 1
  /\ LET p == [IdleProc EXCEPT !.entry = "process", !.user = vkUserId, !.info = info,
                               !.text = messageText]
     IN /\ ContactLookup(p)
        /\ Advance(d, GetOrCreateContact(p))
  /\ UNCHANGED <<Config, contactMap, Helpdesk, now, lastConv>>

\* ------------------------------------------------------ specification
\* The ids an argument or a response can carry.
ArgIds == {Null, 0, 1}
Infos == {"profile", "undefined"}
Fallbacks == 0..MaxRandom

\* What the helpdesk holds when the process starts: nothing, or a contact of
\* user 1 with an open conversation, left by an earlier run.
Contact1 == [id |-> 1, identifier |-> Identifier(1)]
Conversation1 ==
  [id |-> 1, contact_id |-> 1, status |-> "open", source_id |-> <<"vk_", 1, 0>>]

\* The helpdesk settings: the access token (ACCESS_TOKEN or API_TOKEN) and
\* INBOX_ID, each set or missing.
NoToken == ""
NoInbox == 0
DefaultInbox == 4
Envs == [token : {NoToken, "tok"}, inbox : {NoInbox, DefaultInbox}]
Configured == [token |-> "tok", inbox |-> DefaultInbox]

\* this.inboxId as the constructor sets it: all drafts but one default a
\* missing INBOX_ID to '4'.
InboxId(e) ==
  IF api # "timeout" /\ e.inbox = NoInbox THEN DefaultInbox ELSE e.inbox

\* What the constructor does about the settings e: validateConfig logs a
\* missing value ("logged": an error or a warning line) and returns; two drafts
\* have no validation ("unchecked").  No draft throws.
ValidateConfig(e) ==
  CASE api = "bearer" /\ (e.token = NoToken \/ InboxId(e) = NoInbox) -> "logged"
    [] api = "application" /\ e.token = NoToken -> "logged"
    [] api \in {"bearer", "application"} -> "valid"
    [] OTHER -> "unchecked"

\* The constructor returns: the module is built and the controller listens.
Constructed(e) == ValidateConfig(e) \in {"valid", "logged", "unchecked"}

\* The state after construction, the helpdesk settings apart.
Boot ==
  /\ ctl \in CtlDrafts
  /\ api \in ApiDrafts
  /\ vkSecret \in {NoSecret, "s1"}
  /\ contactMap = <<>>
  /\ \/ contacts = {} /\ conversations = {}
     \/ contacts = {Contact1} /\ conversations = {Conversation1}
  /\ messages = {}
  /\ now = ClockStart
  /\ proc = [d \in Slots |-> IdleProc]
  /\ started = 0
  /\ completed = NoCompletion
  /\ returned = <<>>
  /\ hit = <<>>
  /\ lastConv = <<>>

\* The service built with every helpdesk setting present.
Init == Boot /\ env = Configured /\ Constructed(env)

Times == ClockStart..(ClockStart + MaxTicks)

\* The returns of the helpdesk calls of the delivery in slot d.
ContactReturn(d) ==
  \/ \E o \in {"ok", "fail"}, f \in {Null} \cup {c.id : c \in contacts},
        r \in Fallbacks, t \in Times : ContactSearchReturn(d, o, f, r, t)
  \/ \E o \in ContactCreateOutcomes, r \in Fallbacks, t \in Times :
        ContactCreateReturn(d, o, r, t)

ConversationReturn(d) ==
  \/ \E o \in {"ok", "fail"}, f \in {Null} \cup {c.id : c \in conversations},
        t \in Times : ConversationSearchReturn(d, o, f, t)
  \/ \E o \in PostOutcomes, t \in Times : ConversationCreateReturn(d, o, t)

MessageReturn(d) == \E o \in PostOutcomes : MessageCreateReturn(d, o)

HelpdeskReturn(d) == ContactReturn(d) \/ ConversationReturn(d) \/ MessageReturn(d)

\* The webhook: deliveries handled one after the other.
Next ==
  \/ started < MaxDeliveries /\ \E e \in Events : Deliver("d1", e)
  \/ \E o \in UserInfoOutcomes : UserInfoReturn("d1", o)
  \/ HelpdeskReturn("d1")

Spec == Init /\ [][Next]_vars

\* The helpdesk client called directly, one call after the other.  The controller
\* draft and the secret play no part.
InitApi == Init /\ ctl = "basic" /\ vkSecret = NoSecret

NextApi ==
  \/ /\ started < MaxCalls
     /\ \/ \E u \in Users, i \in Infos : CallContact("d1", u, i)
        \/ \E u \in Users, c \in ArgIds : CallConversation("d1", u, c)
        \/ \E c \in ArgIds, t \in Texts : CallSend("d1", c, t)
        \/ \E u \in Users, i \in Infos, t \in Texts : ProcessVkMessage("d1", u, i, t)
  \/ HelpdeskReturn("d1")

SpecApi == InitApi /\ [][NextApi]_vars

\* getOrCreateContact called directly, the calls overlapping.
NextContact ==
  \/ /\ started < MaxResolutions
     /\ \E d \in Slots, u \in Users, i \in Infos : CallContact(d, u, i)
  \/ \E d \in Slots : ContactReturn(d)

SpecContact == InitApi /\ [][NextContact]_vars

\* getOrCreateConversation called directly, the calls overlapping.  The calls
\* are those of one user: the user id enters the source id only.
NextConversation ==
  \/ /\ started < MaxLookups
     /\ \E d \in Slots, c \in ArgIds : CallConversation(d, 1, c)
  \/ \E d \in Slots : ConversationReturn(d)

SpecConversation == InitApi /\ [][NextConversation]_vars

\* The webhook of a service built from any helpdesk settings.
InitStartup ==
  /\ Boot
  /\ ctl = "basic"
  /\ vkSecret = NoSecret
  /\ env \in Envs
  /\ Constructed(env)

SpecStartup == InitStartup /\ [][Next]_vars

\* ------------------------------------------------- dispatcher properties
\* The delivery that has just returned is a webhook delivery.
Answered == completed.pc = "done" /\ completed.entry = "callback"

\* The step is a delivery that is dropped: answered "ok" at once, no call issued,
\* the cache and the helpdesk as they were.
Dropped ==
  /\ completed'.pc = "done"
  /\ completed'.resp = Ack
  /\ completed'.log = <<>>
  /\ contactMap' = contactMap
  /\ UNCHANGED Helpdesk

ConfirmationEvents == {e \in Events : EventType(e) = "confirmation"}

\* C1: a confirmation event is answered with the configured confirmation token;
\* handling it issues no user-info, contact, conversation or message call and
\* leaves the identity cache unchanged.
C1_ConfirmationAnswered ==
  [][started' # started /\ completed'.type = "confirmation" =>
       \A e \in ConfirmationEvents :
          Deliver("d1", e)
            => /\ completed'.pc = "done"
               /\ completed'.resp = VkConfirmation
               /\ completed'.log = <<>>
               /\ contactMap' = contactMap
               /\ UNCHANGED Helpdesk]_vars

C1_Witness ==
  Answered /\ completed.type = "confirmation" /\ completed.resp = VkConfirmation

\* The events other than confirmations whose secret is present and is not "s1".
OtherSecretEvents ==
  {e \in Events : EventType(e) # "confirmation" /\ e.secret = "s2"}

\* C2: when a secret is configured and the secret of an event that is not a
\* confirmation differs from it, the answer is "ok" and no downstream call is
\* issued: a delivery that is not dropped is not the delivery of such an event.
C2_SecretMismatchDropped ==
  [][started' # started /\ vkSecret = "s1" =>
       Dropped \/ \A e \in OtherSecretEvents : ~Deliver("d1", e)]_vars

\* The events other than confirmations that carry another group id than the
\* configured one.
OtherGroupEvents ==
  {e \in Events : EventType(e) # "confirmation" /\ e.group_id = OtherGroupId}

\* C4: an event that is not a confirmation and carries a group id other than
\* the configured one is answered "ok"; no downstream call is issued and the
\* identity cache does not change: a delivery that is not dropped is not the
\* delivery of such an event.
C4_GroupMismatchDropped ==
  [][started' # started =>
       Dropped \/ \A e \in OtherGroupEvents : ~Deliver("d1", e)]_vars

C4_Witness ==
  Answered /\ completed.error = "group" /\ completed.resp = Ack /\ completed.log = <<>>

\* C3: an event that is not a confirmation is answered "ok", whatever fails
\* downstream: no error escapes handleCallback.
C3_AlwaysAcknowledged ==
  Answered /\ completed.type # "confirmation" => completed.resp = Ack

C3_Witness ==
  /\ Answered
  /\ completed.type = "message_new"
  /\ completed.contactHow = "failed"
  /\ completed.resp = Ack

\* C10: a message_new delivery with a non-blank text, for which the cache was
\* cold, no search matched and no call failed, has issued exactly one contact
\* create, one conversation create and one message create, and the cache maps
\* the sender to the id of the contact it created.
C10_EndToEnd ==
  /\ Answered
  /\ completed.type = "message_new"
  /\ completed.error = "none"
  /\ completed.text \in {<<"ch">>, <<"sp", "ch", "sp">>}
  /\ completed.contactHow \notin {"hit", "found", "failed"}
  /\ completed.convHow \notin {"found", "failed"}
  /\ completed.sent # "false"
  => /\ completed.log = <<"user_info", "contact_search", "contact_create",
                          "conversation_search", "conversation_create",
                          "message_create">>
     /\ Count(completed.log, "contact_create") = 1
     /\ Count(completed.log, "conversation_create") = 1
     /\ Count(completed.log, "message_create") = 1
     /\ completed.sent = "true"
     /\ completed.user \in DOMAIN contactMap
     /\ contactMap[completed.user] = completed.contactId
     /\ \E c \in contacts :
          c.id = completed.contactId /\ c.identifier = Identifier(completed.user)

C10_Witness ==
  /\ Answered
  /\ started = 1
  /\ completed.contactHow = "created"
  /\ completed.convHow = "created"
  /\ completed.sent = "true"
  /\ contactMap = completed.user :> completed.contactId

\* ----------------------------------------------------- client properties
\* The call that has just returned is a direct call of getOrCreateContact.
Resolved == completed.pc = "done" /\ completed.entry = "contact"

\* The resolutions of user u that missed the cache and are in flight.
Resolving(u) ==
  {d \in Slots : proc[d].user = u /\ proc[d].pc \in {"contact_search", "contact_create"}}

\* C5 as stated: once the cache holds an entry for a user, every further call of
\* getOrCreateContact for that user returns the same id: two successive cache
\* hits of a user return the same id.
C5_EveryCallSameId ==
  [][\A u \in DOMAIN hit : hit'[u] = hit[u]]_vars

\* C5: a call of getOrCreateContact for a user the cache holds an entry for
\* issues no helpdesk call, returns the id the cache holds when it is called and
\* leaves the cache and the helpdesk as they are; and the entry of a user changes
\* only when a resolution of that user that missed the cache returns.
C5_WarmCallServedFromCache ==
  [][/\ started' # started =>
          \A d \in Slots, u \in DOMAIN contactMap, i \in Infos :
             CallContact(d, u, i)
               => /\ completed'.pc = "done"
                  /\ completed'.log = <<>>
                  /\ completed'.contactId = contactMap[u]
                  /\ hit'[u] = contactMap[u]
                  /\ contactMap' = contactMap
                  /\ UNCHANGED Helpdesk
     /\ \A u \in DOMAIN contactMap :
          contactMap'[u] # contactMap[u]
            => \E d \in Resolving(u) : proc'[d].pc = "idle"]_vars

C5_Witness ==
  /\ Resolved
  /\ completed.contactHow = "hit"
  /\ completed.log = <<>>
  /\ completed.user \in DOMAIN contactMap
  /\ completed.contactId = contactMap[completed.user]
  /\ started >= 2

\* The contacts the helpdesk holds for user u.
ContactsOf(u) == {c \in contacts : c.identifier = <<"vk_", u>>}

\* C6: when the helpdesk holds a contact with the identifier of the user and the
\* search succeeds, getOrCreateContact issues no contact create and returns the
\* id of such a contact.
C6_ExistingContactReused ==
  [][\A d \in Slots :
       /\ proc[d].pc = "contact_search"
       /\ proc'[d].pc # "contact_search"
       /\ ContactsOf(proc[d].user) # {}
       => \A f \in {c.id : c \in contacts}, r \in Fallbacks, t \in Times :
            ContactSearchReturn(d, "ok", f, r, t)
              => /\ completed'.pc = "done"
                 /\ completed'.contactId \in {c.id : c \in ContactsOf(proc[d].user)}
                 /\ Count(completed'.log, "contact_create") = 0
                 /\ contacts' = contacts]_vars

C6_Witness ==
  /\ Resolved
  /\ completed.contactHow = "found"
  /\ completed.log = <<"contact_search">>
  /\ completed.contactId \in {c.id : c \in ContactsOf(completed.user)}

\* Both users have been resolved, each by one call, against a helpdesk that held
\* no contact, and each call returned a contact of its user.
BothResolved ==
  /\ started = 2
  /\ \A d \in Slots : proc[d].pc = "idle"
  /\ conversations = {}
  /\ DOMAIN returned = Users
  /\ \A u \in Users :
       \E c \in contacts : c.id = returned[u] /\ c.identifier = Identifier(u)

C8_FailuresGiveFallbackIds ==
  [][started' = started =>
       \A r \in Fallbacks, t \in Times :
          /\ (proc["d1"].entry = "contact" /\ ContactSearchReturn("d1", "fail", Null, r, t))
               => completed'.contactId # Null
          /\ (proc["d1"].entry = "conversation"
                /\ ConversationSearchReturn("d1", "fail", Null, t))
               => completed'.convId # Null
          /\ MessageCreateReturn("d1", "fail")
               => completed'.pc = "done" /\ completed'.sent = "false"]_vars

BlankTexts == {<<>>, <<"sp">>}

\* C9: sendMessage with an empty or whitespace-only text issues no call and
\* returns false, whatever the conversation id.
C9_BlankTextSkipped ==
  [][started' # started =>
       \A c \in ArgIds, t \in BlankTexts :
          CallSend("d1", c, t)
            => /\ completed'.pc = "done"
               /\ completed'.sent = "false"
               /\ completed'.log = <<>>
               /\ UNCHANGED Helpdesk]_vars

C9_Witness ==
  /\ completed.pc = "done"
  /\ completed.entry = "send"
  /\ completed.convId = 1
  /\ completed.text = <<"sp">>
  /\ completed.sent = "false"
  /\ completed.log = <<>>

\* ------------------------------------------------------ stage properties
\* The stage a call belongs to: user info, contact, conversation, message.
Stage(call) ==
  CASE call = "user_info" -> 0
    [] call \in {"contact_search", "contact_create"} -> 1
    [] call \in {"conversation_search", "conversation_create"} -> 2
    [] OTHER -> 3

\* The calls of a delivery were issued stage after stage.
InStageOrder(log) ==
  \A i, j \in 1..Len(log) : i < j => Stage(log[i]) <= Stage(log[j])

\* C11: a delivery issues its calls in the order contact, conversation,
\* message; it awaits no conversation search or create without a contact id and
\* no message create without a conversation id.
C11_StagesGated ==
  \A d \in Slots :
    proc[d].entry = "callback"
      => /\ InStageOrder(proc[d].log)
         /\ proc[d].pc \in {"conversation_search", "conversation_create"}
              => proc[d].contactId # Null
         /\ proc[d].pc = "message_create" => proc[d].convId # Null

\* C12: two overlapping first-time resolutions of one user both miss the cache,
\* both search without a match and both create: every create the helpdesk
\* answers adds a contact with the identifier of the user and returns its id,
\* also when a contact with that identifier exists by then.
C12_CreateNotDeduplicated ==
  [][\A d \in Slots :
       proc[d].pc = "contact_create" /\ proc'[d].pc = "idle"
         => \A r \in Fallbacks, t \in Times :
              ContactCreateReturn(d, "id", r, t)
                => /\ completed'.contactHow = "created"
                   /\ Cardinality({c \in contacts' : c.identifier = <<"vk_", proc[d].user>>})
                        = Cardinality(ContactsOf(proc[d].user)) + 1
                   /\ completed'.contactId \notin {c.id : c \in contacts}]_vars

\* Two resolutions against a helpdesk that held no contact have left two contacts
\* with the identifier of user 1, the second of which has just returned.
C12_Witness ==
  /\ started = 2
  /\ conversations = {}
  /\ \A d \in Slots : proc[d].pc = "idle"
  /\ Resolved
  /\ completed.user = 1
  /\ completed.log = <<"contact_search", "contact_create">>
  /\ completed.contactHow = "created"
  /\ Cardinality(ContactsOf(1)) = 2

\* C13: the placeholder ids synthesized for two distinct users are never equal.
\* While the helpdesk holds no contact, every id a resolution has returned is a
\* placeholder.
C13_FallbackIdsUnique ==
  contacts = {}
    => \A u, v \in DOMAIN returned :
         u # v /\ returned[u] # Null /\ returned[v] # Null
           => returned[u] # returned[v]

\* -------------------------------------------------- forwarder properties
\* C14: sendMessage returns true only for a 2xx response that carries a message
\* id, and false for a failed call and for a 2xx response without an id.
C14_DeliveredOnlyWithId ==
  [][started' = started /\ proc["d1"].pc = "message_create" =>
       \A out \in PostOutcomes :
          MessageCreateReturn("d1", out)
            => /\ completed'.pc = "done"
               /\ completed'.sent = "true" <=> out = "id"]_vars

\* The call that has just returned is a direct call of sendMessage that issued
\* no call.
Skipped == completed.pc = "done" /\ completed.entry = "send" /\ completed.log = <<>>

\* C15: the value sendMessage returns for a text it skips differs from the value
\* it returns when the message create fails, and both differ from the value it
\* returns for a delivered message.
C15_ThreeOutcomes ==
  /\ SendResult("fail") # SendResult("id")
  /\ Skipped => completed.sent \notin {SendResult("fail"), SendResult("id")}


\* C16: when the message-create call fails after the contact and the
\* conversation were resolved, nothing is rolled back: the step in which
\* sendMessage returns false leaves the helpdesk's contacts and conversations
\* and the contact cache as they were, so the contact and the conversation the
\* delivery resolved are still there, and the delivery has issued no call other
\* than its searches and creates.
PipelineCalls ==
  {"user_info", "contact_search", "contact_create", "conversation_search",
   "conversation_create", "message_create"}

C16_NoRollback ==
  [][started' = started /\ proc["d1"].pc = "message_create"
       /\ completed'.pc = "done" /\ completed'.sent = "false"
     => /\ contacts' = contacts
        /\ conversations' = conversations
        /\ contactMap' = contactMap
        /\ \A i \in 1..Len(completed'.log) : completed'.log[i] \in PipelineCalls
        /\ completed'.contactHow = "created"
             => /\ \E c \in contacts' : c.id = completed'.contactId
                /\ completed'.user \in DOMAIN contactMap'
                /\ contactMap'[completed'.user] = completed'.contactId
        /\ completed'.convHow = "created"
             => \E c \in conversations' : c.id = completed'.convId]_vars

C16_Witness ==
  /\ Answered
  /\ completed.sent = "false"
  /\ completed.contactHow = "created"
  /\ completed.convHow = "created"
  /\ completed.log[Len(completed.log)] = "message_create"
  /\ messages = {}
  /\ \E c \in contacts : c.id = completed.contactId
  /\ \E c \in conversations : c.id = completed.convId
  /\ contactMap[completed.user] = completed.contactId


\* C17: each message_new delivery issues at most one message-create call, also
\* when that call fails (no retry); it issues exactly one when contact and
\* conversation resolution both yield an id and the text is non-blank.
MessageCreates(p) == Count(p.log, "message_create")

C17_OneMessageCreate ==
  /\ \A d \in Slots : MessageCreates(proc[d]) <= 1
  /\ Answered /\ completed.type = "message_new"
       => /\ MessageCreates(completed) <= 1
          /\ completed.contactId # Null /\ completed.convId # Null
               /\ ~Blank(completed.text)
             => MessageCreates(completed) = 1


C17_Witness ==
  /\ Answered
  /\ completed.type = "message_new"
  /\ completed.contactId # Null
  /\ completed.convId # Null
  /\ ~Blank(completed.text)
  /\ MessageCreates(completed) = 1
  /\ completed.sent = "false"


\* C18: getVkUserInfo never throws: when the users.get call fails or answers
\* with an error body it returns the placeholder name, and handleMessageNew goes
\* on to resolve the contact, by the cache or by the contact search, without an
\* error having been raised.
C18_PlaceholderOnFailure ==
  [][started' = started /\ proc["d1"].pc = "user_info"
     => \A out \in {"error", "fail"} :
          UserInfoReturn("d1", out)
          => LET u == proc["d1"].user
                 q == IF proc'["d1"].pc = "idle" THEN completed' ELSE proc'["d1"]
             IN /\ GetVkUserInfo(out) = "placeholder"
                /\ q.error = "none"
                /\ IF u \in DOMAIN contactMap
                   THEN u \in DOMAIN hit' /\ hit'[u] = contactMap[u]
                   ELSE /\ proc'["d1"].pc = "contact_search"
                        /\ proc'["d1"].info = "placeholder"
                        /\ proc'["d1"].log = <<"user_info", "contact_search">>]_vars

C18_Witness ==
  /\ proc["d1"].entry = "callback"
  /\ proc["d1"].pc = "contact_search"
  /\ proc["d1"].info = "placeholder"


\* ---------------------------------------------------- startup properties
\* C19: when a required helpdesk setting (the access token, the inbox id) is
\* missing, startup fails: the service never handles a webhook event with the
\* value missing.
C19_MissingConfigNeverServes ==
  env.token = NoToken \/ InboxId(env) = NoInbox
  => started = 0 /\ \A d \in Slots : proc[d].pc = "idle"


\* ---------------------------------------------------- fallback properties
\* C20: when the contact search or the contact create fails but the later
\* helpdesk calls succeed, the delivery proceeds with the synthesized contact id:
\* the conversation search is issued and, for a non-blank text, the
\* message-create call, instead of the message being dropped.
C20_FallbackContactProceeds ==
  /\ Answered
  /\ completed.type = "message_new"
  /\ completed.contactHow = "failed"
  /\ completed.convHow # "failed"
  /\ ~Blank(completed.text)
  => /\ completed.contactId # Null
     /\ Count(completed.log, "conversation_search") = 1
     /\ MessageCreates(completed) = 1

\* ------------------------------------------------- reconciler properties
\* C21: every contact-create call is preceded, within the same call of
\* getOrCreateContact, by a cache miss and then by a contact search on the same
\* identifier that succeeded and returned no match; a create is never issued
\* after a failed search or after a search with matches.
C21_CreateFollowsEmptySearch ==
  [][\A d \in Slots :
       /\ proc'[d].pc = "contact_search" /\ proc[d].pc # "contact_search"
            => /\ proc[d].pc = "idle"
               /\ proc'[d].user \notin DOMAIN contactMap
               /\ proc'[d].log[Len(proc'[d].log)] = "contact_search"
       /\ proc'[d].pc = "contact_create" /\ proc[d].pc # "contact_create"
            => /\ proc[d].pc = "contact_search"
               /\ proc'[d].user = proc[d].user
               /\ ContactMatches(proc[d].user) = {}
               /\ Count(proc'[d].log, "contact_search") = 1
               /\ Count(proc'[d].log, "contact_create") = 1
               /\ \A f \in {Null} \cup {c.id : c \in contacts}, r \in Fallbacks,
                     t \in Times : ~ContactSearchReturn(d, "fail", f, r, t)
               /\ \E r \in Fallbacks, t \in Times :
                     ContactSearchReturn(d, "ok", Null, r, t)]_vars

\* A create is awaited while the helpdesk holds contacts of other users only.
C21_Witness ==
  \E d \in Slots :
    /\ proc[d].pc = "contact_create"
    /\ proc[d].log = <<"contact_search", "contact_create">>
    /\ ContactMatches(proc[d].user) = {}
    /\ contacts # {}

\* C22: when the calls do not overlap in time, whatever calls fail, the helpdesk
\* never holds more than one contact per external user id.
C22_OneContactPerUser ==
  \A u \in Users : Cardinality(ContactsOf(u)) <= 1

\* A second resolution has found the contact that the first one created for the
\* user in a helpdesk that held none, though the first one had failed.
C22_Witness ==
  /\ started = 2
  /\ conversations = {}
  /\ completed.pc = "done"
  /\ completed.entry \in {"contact", "process"}
  /\ completed.contactHow = "found"
  /\ completed.log[1] = "contact_search"
  /\ Cardinality(ContactsOf(completed.user)) = 1

\* ---------------------------------------------- conversation properties
\* The record of the call of slot d after the step: in flight, or just returned.
After(d) == IF proc'[d].pc = "idle" THEN completed' ELSE proc'[d]

\* The open conversations the helpdesk holds for the contact.
OpenConversationsOf(contactId) ==
  {c \in conversations : c.contact_id = contactId /\ c.status = "open"}

\* C23: when the search for the open conversations of the contact succeeds with
\* one or more results, getOrCreateConversation returns the id of the first
\* result in returned order and issues no conversation-create call.
C23_FirstOpenConversationReused ==
  [][started' = started
     => \A d \in Slots :
          /\ proc[d].pc = "conversation_search"
          /\ proc'[d].pc # "conversation_search"
          /\ OpenConversationsOf(proc[d].contactId) # {}
          => /\ proc'[d].pc # "conversation_create"
             /\ \A first \in {c.id : c \in conversations}, t \in Times :
                  ConversationSearchReturn(d, "ok", first, t)
                    => /\ After(d).convId = first
                       /\ After(d).convHow = "found"
                       /\ Count(After(d).log, "conversation_create") = 0
                       /\ conversations' = conversations]_vars

\* A call has returned a conversation found among two open ones of its contact.
C23_Witness ==
  /\ completed.pc = "done"
  /\ completed.entry = "conversation"
  /\ completed.convHow = "found"
  /\ completed.log = <<"conversation_search">>
  /\ completed.convId \in {c.id : c \in OpenConversationsOf(completed.contactId)}
  /\ Cardinality(OpenConversationsOf(completed.contactId)) = 2

\* C24: repeated calls of getOrCreateConversation for one contact return the
\* same conversation id as long as that conversation stays open and the
\* helpdesk answers, also when further open conversations of the contact appear
\* in between: a call that finds the contact's conversation by its search never
\* returns another id than the call before it got for that contact.
C24_ConversationStable ==
  [][started' = started
     => \A d \in Slots :
          /\ proc[d].pc = "conversation_search"
          /\ proc'[d].pc # "conversation_search"
          /\ After(d).convHow = "found"
          /\ proc[d].contactId \in DOMAIN lastConv
          /\ \E c \in OpenConversationsOf(proc[d].contactId) :
               c.id = lastConv[proc[d].contactId]
          => After(d).convId = lastConv[proc[d].contactId]]_vars

\* C25: when the calls do not overlap in time, the bridge never creates a second
\* conversation for a contact while one it created earlier is open: every
\* conversation-create call follows a successful search that returned no open
\* conversation of the contact, and no contact has two open conversations.
C25_OneOpenConversationPerContact ==
  [][/\ proc'["d1"].pc = "conversation_create" /\ proc["d1"].pc # "conversation_create"
          => /\ proc["d1"].pc = "conversation_search"
             /\ OpenConversationsOf(proc["d1"].contactId) = {}
             /\ Count(proc'["d1"].log, "conversation_search") = 1
             /\ \A f \in {Null} \cup {c.id : c \in conversations}, t \in Times :
                  ~ConversationSearchReturn("d1", "fail", f, t)
     /\ \A c1, c2 \in conversations' :
          c1.contact_id = c2.contact_id /\ c1.status = "open" /\ c2.status = "open"
            => c1 = c2]_vars

\* A second call has found the open conversation that an earlier call created.
C25_Witness ==
  /\ started = 2
  /\ completed.pc = "done"
  /\ completed.entry \in {"conversation", "process"}
  /\ completed.convHow = "found"
  /\ \E c \in OpenConversationsOf(completed.contactId) :
       c.id = completed.convId /\ c.source_id[3] >= ClockStart

\* C26: the source id sent with a conversation-create call is unique: no two
\* conversation-create calls, in flight or stored by the helpdesk, carry the same
\* source id.
C26_SourceIdsUnique ==
  /\ \A d, e \in Slots :
       d # e /\ proc[d].pc = "conversation_create" /\ proc[e].pc = "conversation_create"
         => proc[d].sourceId # proc[e].sourceId
  /\ \A d \in Slots, c \in conversations :
       proc[d].pc = "conversation_create" => proc[d].sourceId # c.source_id
  /\ \A c1, c2 \in conversations : c1.source_id = c2.source_id => c1 = c2

\* C27: when the conversation search or the conversation create fails,
\* getOrCreateConversation returns a synthesized conversation id instead of
\* aborting, so that the delivery enters the message-forward stage: it issues
\* the message-create call for a non-blank text.
C27_ConversationFallbackProceeds ==
  /\ Answered
  /\ completed.type = "message_new"
  /\ completed.convHow = "failed"
  => /\ completed.convId # Null
     /\ ~Blank(completed.text) => MessageCreates(completed) = 1

\* ------------------------------------------------------ cache properties
\* No step removes an entry of the identity cache.
CacheEntriesKept == \A u \in DOMAIN contactMap : u \in DOMAIN contactMap'

\* C28: a cache entry is never removed: once the identity cache holds an entry
\* for an external user id it holds one in every later state; and when the calls
\* do not overlap in time the value of the entry never changes.
C28_CacheEntriesPermanent ==
  [][/\ CacheEntriesKept
     /\ \A u \in DOMAIN contactMap : contactMap'[u] = contactMap[u]]_vars

\* The cache holds the entry an earlier call set and the later call of the same
\* user was served from it.
C28_Witness ==
  /\ started = 2
  /\ completed.user \in DOMAIN contactMap
  /\ completed.pc = "done"
  /\ completed.entry \in {"contact", "process"}
  /\ completed.contactHow = "hit"
  /\ completed.contactId = contactMap[completed.user]

\* C28, first part, for overlapping calls as well.
CacheNeverShrinks == [][CacheEntriesKept]_vars

\* C29: whenever getOrCreateContact returns an id for a user (found by the
\* search, newly created, or synthesized by the catch block), the identity cache
\* maps the user's external id to exactly that id at the moment of the return.
C29_ReturnedIdIsCached ==
  Resolved /\ completed.contactId # Null
  => /\ completed.user \in DOMAIN contactMap
     /\ contactMap[completed.user] = completed.contactId

\* A resolution that failed has returned a synthesized id, which the cache holds.
C29_Witness ==
  /\ Resolved
  /\ completed.contactHow = "failed"
  /\ completed.contactId # Null
  /\ completed.user \in DOMAIN contactMap
  /\ contactMap[completed.user] = completed.contactId
  /\ contacts = {}

\* C30: for every event type other than confirmation and message_new, recognized
\* or not, handleCallback returns "ok" without awaiting anything, issues no
\* downstream call and leaves the identity cache and the helpdesk unchanged.
HandledTypes == {"confirmation", "message_new"}

C30_OtherEventsNoEffect ==
  [][started' # started
     => /\ proc'["d1"].pc # "idle" => proc'["d1"].type = "message_new"
        /\ completed'.pc = "done" /\ completed'.type \notin HandledTypes
             => /\ completed'.resp = Ack
                /\ completed'.log = <<>>
                /\ proc'["d1"].pc = "idle"
                /\ contactMap' = contactMap
                /\ UNCHANGED Helpdesk]_vars

\* A membership event with its object has been answered.
C30_Witness ==
  /\ Answered
  /\ completed.type = "group_join"
  /\ completed.error = "none"
  /\ completed.resp = Ack
  /\ completed.log = <<>>

\* ------------------------------------------------ validation properties
\* C31: a message_new event whose envelope is malformed (object or
\* object.message missing) is acknowledged: handleCallback returns "ok" in the
\* step that receives it, issues no user-info or helpdesk call and changes no
\* cache entry.
C31_MalformedAcknowledged ==
  [][started' # started /\ After("d1").type = "message_new"
     => \/ /\ completed'.pc = "done"
           /\ completed'.resp = Ack
           /\ completed'.log = <<>>
           /\ proc'["d1"].pc = "idle"
           /\ contactMap' = contactMap
           /\ UNCHANGED Helpdesk
        \/ \A e \in MalformedEvents : ~Deliver("d1", e)]_vars

\* A message_new event without object.message has passed the checks of the
\* dispatcher and has been answered.
C31_Witness ==
  /\ Answered
  /\ completed.type = "message_new"
  /\ completed.error \in {"swallowed", "envelope"}
  /\ completed.resp = Ack
  /\ completed.log = <<>>

\* The well-formed message_new events that carry no secret.
NoSecretMessageEvents == {e \in MessageEvents : e.secret = NoSecret}

\* C32: the shared-secret check applies exactly when a secret is configured:
\* with no secret configured no event is rejected for its secret, and with a
\* secret configured an event whose secret field is absent is not processed (it
\* is dropped).
C32_SecretCheckedWhenConfigured ==
  [][started' # started
     => /\ After("d1").error = "secret" => vkSecret # NoSecret
        /\ vkSecret = "s1"
             => Dropped \/ \A e \in NoSecretMessageEvents : ~Deliver("d1", e)]_vars

\* C33: only getOrCreateContact writes the identity cache, and a call for user u
\* writes only the entry of u: a step that changes the cache is the return of a
\* contact search or a contact create, and it leaves the entries of the other
\* users as they were; getOrCreateConversation, sendMessage and the checks of
\* handleCallback never change the cache.
C33_CacheOwnedByReconciler ==
  [][contactMap' # contactMap
     => \E d \in Slots :
          /\ proc[d].pc \in {"contact_search", "contact_create"}
          /\ proc'[d].pc # proc[d].pc
          /\ DOMAIN contactMap' = DOMAIN contactMap \cup {proc[d].user}
          /\ \A v \in DOMAIN contactMap :
               v # proc[d].user => contactMap'[v] = contactMap[v]]_vars

\* The second call has just written the entry of its user next to the entry of
\* the other user.
C33_Witness ==
  /\ started = 2
  /\ DOMAIN contactMap = Users
  /\ completed.pc = "done"
  /\ completed.contactHow \in {"found", "created", "failed"}
  /\ contactMap[completed.user] = completed.contactId

\* The confirmation handshakes carried in the query parameters only.
QueryConfirmations ==
  {e \in Events : e.bodyType = NoType /\ e.queryType = "confirmation"}

\* The events whose body and query both carry a type, and not the same one.
BodyOverQueryEvents ==
  {e \in Events : e.bodyType # NoType /\ e.queryType # NoType
                  /\ e.queryType # e.bodyType}

\* C34: the event type is read from the request body when present and from the
\* query parameters otherwise: a confirmation handshake carried only in the
\* query parameters is answered with the confirmation token, and an event whose
\* body carries a type is handled as that type whatever the query says.
C34_TypeFromBodyElseQuery ==
  [][started' # started
     => /\ After("d1").via = "query"
             => \/ /\ completed'.pc = "done"
                   /\ completed'.resp = VkConfirmation
                   /\ completed'.log = <<>>
                \/ \A e \in QueryConfirmations : ~Deliver("d1", e)
        /\ After("d1").via = "body"
             => \/ After("d1").type = "message_typing_state"
                \/ \A e \in BodyOverQueryEvents : ~Deliver("d1", e)]_vars

\* A handshake whose type came from the query has been answered with the token.
C34_Witness ==
  /\ Answered
  /\ completed.via = "query"
  /\ completed.type = "confirmation"
  /\ completed.resp = VkConfirmation

\* C35: in every reachable state the identity cache is injective: no two
\* distinct external user ids are mapped to the same contact id.
C35_CacheInjective ==
  \A u, v \in DOMAIN contactMap : u # v => contactMap[u] # contactMap[v]

\* C36: across any interleaving of concurrent calls for one contact that has no
\* open conversation yet, the bridge creates at most one open conversation for
\* the contact: the helpdesk never holds two open conversations of one contact.
C36_OneOpenConversationUnderRace ==
  \A c1, c2 \in conversations :
    c1.contact_id = c2.contact_id /\ c1.status = "open" /\ c2.status = "open"
      => c1 = c2

\* ---------------------------------------------------- placeholder properties
\* The id is a placeholder: no contact of the helpdesk carries it.
IsPlaceholder(id) == id \notin {c.id : c \in contacts}

\* C37 as stated: once a synthesized contact id is cached for a user it stays:
\* the placeholder is never replaced within the process lifetime.
C37_PlaceholderNeverReplaced ==
  [][\A u \in DOMAIN contactMap :
       IsPlaceholder(contactMap[u]) => contactMap'[u] = contactMap[u]]_vars

\* C37: once a synthesized contact id is cached for a user and no resolution of
\* that user that missed the cache is still in flight, the entry stays, and a
\* later call of getOrCreateContact for the user returns the placeholder and
\* issues no helpdesk call, whatever the helpdesk would answer.
C37_PlaceholderServedFromCache ==
  [][\A u \in DOMAIN contactMap :
       IsPlaceholder(contactMap[u]) /\ Resolving(u) = {}
         => /\ contactMap'[u] = contactMap[u]
            /\ started' # started
                 => \A d \in Slots, i \in Infos :
                      CallContact(d, u, i)
                        => /\ completed'.pc = "done"
                           /\ completed'.log = <<>>
                           /\ completed'.contactId = contactMap[u]
                           /\ UNCHANGED Helpdesk]_vars

\* A call has been served a placeholder from the cache while the helpdesk, which
\* holds a contact by now, has no contact with that id.
C37_Witness ==
  /\ Resolved
  /\ completed.contactHow = "hit"
  /\ completed.log = <<>>
  /\ IsPlaceholder(completed.contactId)
  /\ contactMap[completed.user] = completed.contactId
  /\ Resolving(completed.user) = {}
  /\ contacts # {}

\* C38: a message_new event whose text is empty or whitespace-only issues no
\* message-create call and stores no message, but its stages run first: the user
\* info call, then getOrCreateContact, then (unless the controller stops on a
\* falsy contact id) getOrCreateConversation.
StopsOnFalsy == ctl \in {"basic", "events"}

C38_BlankTextRunsStages ==
  /\ \A m \in messages : ~Blank(m.content)
  /\ \A d \in Slots :
       proc[d].entry = "callback" /\ Blank(proc[d].text)
         => MessageCreates(proc[d]) = 0
  /\ Answered /\ completed.type = "message_new" /\ completed.error = "none"
       /\ Blank(completed.text)
       => /\ MessageCreates(completed) = 0
          /\ Count(completed.log, "user_info") = 1
          /\ completed.contactHow # "none"
          /\ ~(StopsOnFalsy /\ Falsy(completed.contactId))
               => completed.convHow # "none"

\* A blank message has been answered after its delivery created a contact and a
\* conversation in the helpdesk, and no message.
C38_Witness ==
  /\ Answered
  /\ completed.type = "message_new"
  /\ completed.text = <<"sp">>
  /\ completed.contactHow = "created"
  /\ completed.convHow = "created"
  /\ \E c \in contacts : c.id = completed.contactId
  /\ \E c \in conversations : c.id = completed.convId
  /\ MessageCreates(completed) = 0
  /\ messages = {}
  /\ completed.resp = Ack

\* The confirmation events whose secret is present and differs from the
\* configured one, or whose group id differs from the configured one.
MismatchedConfirmations ==
  {e \in ConfirmationEvents :
     \/ e.secret # NoSecret /\ e.secret # vkSecret
     \/ e.group_id = OtherGroupId}

\* C39: a confirmation event is answered with the confirmation token before any
\* validation, whatever its secret and its group id: a delivery that is not
\* answered at once with the token, without an error, is not the delivery of a
\* confirmation whose secret or group id mismatches.
C39_ConfirmationBeforeValidation ==
  [][started' # started /\ After("d1").type = "confirmation"
       => \/ /\ completed'.pc = "done"
             /\ completed'.type = "confirmation"
             /\ completed'.resp = VkConfirmation
             /\ completed'.error = "none"
             /\ completed'.log = <<>>
          \/ \A e \in MismatchedConfirmations : ~Deliver("d1", e)]_vars

\* The draft with the secret check has answered the handshake of an event that
\* fails both its secret check and its group check.
C39_Witness ==
  /\ Answered
  /\ ctl = "strict"
  /\ vkSecret = "s1"
  /\ completed.type = "confirmation"
  /\ completed.failed = {"secret", "group"}
  /\ completed.error = "none"
  /\ completed.resp = VkConfirmation

\* ---------------------------------------------------------- termination
\* The webhook with deliveries that overlap: while a delivery awaits a call,
\* another request is handled.  The events are those no validation drops.
LiveEvents ==
  {e \in Events : /\ e.secret = NoSecret /\ e.group_id = NoGroupId
                  /\ e.text \in {<<>>, <<"ch">>} /\ e.from_id \in {0, 1}}

\* An awaited call of the delivery in slot d returns, with a response or a
\* failure, and its handler runs on to its next await or to its return.  The
\* clock stands still and Math.random gives 0.
CallReturns(d) ==
  \/ \E o \in {"ok", "fail"} : UserInfoReturn(d, o)
  \/ \E o \in {"ok", "fail"}, f \in {Null} \cup {c.id : c \in contacts} :
        ContactSearchReturn(d, o, f, 0, now)
  \/ \E o \in {"id", "fail"} : ContactCreateReturn(d, o, 0, now)
  \/ \E o \in {"ok", "fail"}, f \in {Null} \cup {c.id : c \in conversations} :
        ConversationSearchReturn(d, o, f, now)
  \/ \E o \in {"id", "fail"} : ConversationCreateReturn(d, o, now)
  \/ \E o \in {"id", "fail"} : MessageCreateReturn(d, o)

NextLive ==
  \E d \in Slots :
     \/ started < MaxOverlap /\ \E e \in LiveEvents : Deliver(d, e)
     \/ CallReturns(d)

\* While a call is awaited, a call returns in the end: no call stays pending
\* for ever (the HTTP client settles every request, at the latest by its
\* timeout or a connection error), and the event loop runs the continuation.
CallsReturn == WF_vars(\E d \in Slots : CallReturns(d))

InitLive == Init /\ vkSecret = NoSecret

SpecLive == InitLive /\ [][NextLive]_vars /\ CallsReturn

\* C40: every webhook delivery terminates: if each awaited call returns in the
\* end, a delivery that awaits a call returns in the end, whatever the other
\* delivery does meanwhile, and it returns a response token.
C40_DeliveryTerminates ==
  \A d \in Slots :
     proc[d].pc # "idle"
       ~> /\ proc[d].pc = "idle"
          /\ Answered
          /\ completed.resp \in {Ack, VkConfirmation}

\* A delivery has returned "ok" after its three stages while the other delivery
\* still awaits a call.
C40_Witness ==
  /\ Answered
  /\ completed.type = "message_new"
  /\ MessageCreates(completed) = 1
  /\ completed.resp = Ack
  /\ \E d \in Slots : proc[d].pc \notin {"idle", "done"}

====
